---- MODULE Spec2Model ----
(***************************************************************************)
(* A model of src/main.py: the retrieval-augmented question-answering      *)
(* endpoint run_submission, its ingestion gate get_mongo_vector_search,    *)
(* the chunk stamping of get_document_chunks and the lazily initialised    *)
(* MongoDB collection handle.                                              *)
(*                                                                         *)
(* Text that the code parses (the model's reply) is a sequence of          *)
(* one-character strings, so that re.split and str.strip are computed      *)
(* character by character.  Text that the code only carries around (chunk  *)
(* page_content, URLs, questions) is an atomic string.                     *)
(***************************************************************************)
EXTENDS Integers, Sequences, FiniteSets, TLC

\* ------------------------------------------------------------------ bounds

\* Number of server processes that share the collection.  Each runs one
\* event loop, which handles one request at a time.
NumHandlers == 2

\* Longest question list a request carries (the code requires at least 1).
MaxQuestions == 2

\* Longest model reply, in lines, that the parser is explored on.
MaxLines == 3

\* Most rows the collection holds: a request that would ingest is taken
\* only while its document still fits.
MaxStored == 4

\* search_kwargs={'k': 5}
K == 5

Procs == 1..NumHandlers

\* ------------------------------------------------------------ characters

NL == "\n"

\* Python's \d on the characters up to U+00FF, the ones a string of this
\* module can hold.
IsDigit(c) == c \in {"0", "1", "2", "3", "4", "5", "6", "7", "8", "9"}

\* Python's \s for a str pattern, which is also the set str.strip()
\* removes, on the characters up to U+00FF: space, \n, \t, \r, \f, and,
\* written as the characters themselves, U+000B, U+001C to U+001F, U+0085
\* and U+00A0.
IsSpace(c) ==
    c \in {" ", "\n", "\t", "\r", "\f", "", "", "", "", "", "", " "}

\* The literal of line 216, repeated inside the prompt at line 241.
Sentinel == <<
    "T", "h", "e", " ", "p", "r", "o", "v", "i", "d", "e", "d", " ", "c",
    "o", "n", "t", "e", "x", "t", " ", "d", "o", "e", "s", " ", "n", "o",
    "t", " ", "c", "o", "n", "t", "a", "i", "n", " ", "s", "u", "f", "f",
    "i", "c", "i", "e", "n", "t", " ", "i", "n", "f", "o", "r", "m", "a",
    "t", "i", "o", "n", " ", "t", "o", " ", "a", "n", "s", "w", "e", "r",
    " ", "t", "h", "i", "s", " ", "q", "u", "e", "s", "t", "i", "o", "n",
    "." >>

\* -------------------------------------------------- the answer parser

\* First position >= i of s that holds no digit (Len(s)+1 if none): the
\* greedy \d+ of the pattern.
RECURSIVE DigitsEnd(_, _)
DigitsEnd(s, i) ==
    IF i <= Len(s) /\ IsDigit(s[i]) THEN DigitsEnd(s, i + 1) ELSE i

\* First position >= i of s that holds no whitespace: the greedy \s*.
RECURSIVE SpaceEnd(_, _)
SpaceEnd(s, i) ==
    IF i <= Len(s) /\ IsSpace(s[i]) THEN SpaceEnd(s, i + 1) ELSE i

\* The pattern r'\n\d+\.\s*' tried at position i of s: the position just
\* after the match, or 0 when it does not match there.
MatchEnd(s, i) ==
    IF i <= Len(s) /\ s[i] = NL
    THEN LET d == DigitsEnd(s, i + 1)
         IN  IF d > i + 1 /\ d <= Len(s) /\ s[d] = "."
             THEN SpaceEnd(s, d + 1)
             ELSE 0
    ELSE 0

\* re.split from position start on: the piece up to the leftmost match at
\* or after start, then the pieces of what follows that match.
RECURSIVE SplitFrom(_, _)
SplitFrom(s, start) ==
    LET matches == {i \in start..Len(s) : MatchEnd(s, i) > 0}
    IN  IF matches = {}
        THEN << SubSeq(s, start, Len(s)) >>
        ELSE LET m == CHOOSE i \in matches : \A j \in matches : i <= j
             IN  << SubSeq(s, start, m - 1) >> \o SplitFrom(s, MatchEnd(s, m))

\* re.split(r'\n\d+\.\s*', response_text), line 249.
ReSplit(s) == SplitFrom(s, 1)

\* str.strip(): s without its leading and trailing whitespace.
Strip(s) ==
    LET keep == {i \in 1..Len(s) : ~IsSpace(s[i])}
    IN  IF keep = {}
        THEN << >>
        ELSE SubSeq(s, CHOOSE i \in keep : \A j \in keep : i <= j,
                       CHOOSE i \in keep : \A j \in keep : i >= j)

\* [ans.strip() for ans in raw_answers if ans.strip()], line 250.
RECURSIVE StripNonEmpty(_)
StripNonEmpty(raw) ==
    IF raw = << >>
    THEN << >>
    ELSE LET a == Strip(Head(raw))
         IN  (IF a = << >> THEN << >> ELSE << a >>) \o StripNonEmpty(Tail(raw))

\* Lines 249-250: the trimmed non-empty fragments of the reply.
Fragments(response_text) == StripNonEmpty(ReSplit(response_text))

\* A plausible slip: the fragments are returned whatever their number.
ParseNoFallback(response_text, n) == Fragments(response_text)

\* A plausible slip: the fallback returns the reply trimmed.
ParseTrimmedFallback(response_text, n) ==
    LET answers == Fragments(response_text)
    IN  IF Len(answers) # n THEN << Strip(response_text) >> ELSE answers

\* Lines 249-256: the answers of a reply, given the number of questions.
ParseResponse(response_text, n) ==
    LET answers == Fragments(response_text)
    IN  IF Len(answers) # n THEN << response_text >> ELSE answers

\* ["The provided context ..."] * len(request.questions), line 216.
SentinelAnswers(n) == [i \in 1..n |-> Sentinel]

\* ------------------------------------------------- documents and chunks

U1 == "https://host/a.pdf"
U2 == "https://host/b.docx?sig=1"
U3 == "https://host/empty.pdf"

\* The document URLs requests are made for.
URLs == {U1, U2, U3}

\* os.path.basename(doc_url.split('?')[0]), line 152, on the URLs above.
SourceFilename(doc_url) ==
    CASE doc_url = U1 -> "a.pdf"
      [] doc_url = U2 -> "b.docx"
      [] doc_url = U3 -> "empty.pdf"

\* The page_content of the chunks that loading and splitting the document
\* behind a URL yields (lines 141-150): two documents that share a passage
\* and one document without extractable text.
SplitDocuments(doc_url) ==
    CASE doc_url = U1 -> << "c1", "c2" >>
      [] doc_url = U2 -> << "c2", "c3" >>
      [] doc_url = U3 -> << >>

\* A slip in the stamping: the URL without its query string is stored.
StampBasename(texts, doc_url) ==
    [i \in 1..Len(texts) |->
        [page_content |-> texts[i],
         source_document |-> SourceFilename(doc_url),
         source_url |-> SourceFilename(doc_url)]]

\* Lines 152-157: every chunk is stamped with the file name and the URL.
StampChunks(texts, doc_url) ==
    [i \in 1..Len(texts) |->
        [page_content |-> texts[i],
         source_document |-> SourceFilename(doc_url),
         source_url |-> doc_url]]

\* ------------------------------------------------------ the vector index

\* How from_documents (lines 184-189) lays a chunk out as a row of the
\* collection is the vector store library's doing and src/main.py does not
\* fix it: the metadata of the chunk stays a sub-document "metadata" of the
\* row, or its keys are spread into the row beside the text.
Layouts == {"nested", "flat"}

\* The row stored for one chunk.
Row(lay, chunk) ==
    IF lay = "nested"
    THEN [page_content |-> chunk.page_content,
          metadata |-> [source_document |-> chunk.source_document,
                        source_url |-> chunk.source_url]]
    ELSE chunk

\* The rows from_documents writes for the chunks, lines 184-189.
from_documents(lay, documents) ==
    [i \in 1..Len(documents) |-> Row(lay, documents[i])]

\* count_documents({"metadata.source_url": doc_url}, limit=1) # 0, line
\* 177: some row has a sub-document "metadata" whose source_url is doc_url.
DocExists(idx, doc_url) ==
    \E i \in 1..Len(idx) :
        /\ "metadata" \in DOMAIN idx[i]
        /\ idx[i].metadata.source_url = doc_url

Min(a, b) == IF a <= b THEN a ELSE b

\* What one similarity search may return (line 211 with k of line 205): up
\* to K stored rows, each row at most once, in rank order.  The store is
\* searched as a whole.
SearchResults(idx) ==
    UNION { { [i \in 1..n |-> idx[ps[i]]] :
                ps \in { f \in [1..n -> 1..Len(idx)] :
                           \A a, b \in 1..n : a # b => f[a] # f[b] } } :
            n \in 0..Min(K, Len(idx)) }

\* ------------------------------------------------------ the evidence set
\* all_source_docs is a Python dict keyed by page_content; a dict keeps its
\* keys in insertion order.  It is modelled as the sequence of its values.

\* A slip: every retrieved chunk is appended.
DictAppend(d, doc) == Append(d, doc)

\* A slip: a key that is assigned again moves to the end.
DictMoveToEnd(d, doc) ==
    SelectSeq(d, LAMBDA x : x.page_content # doc.page_content) \o << doc >>

\* all_source_docs[doc.page_content] = doc, line 213.
DictSet(d, doc) ==
    IF \E i \in 1..Len(d) : d[i].page_content = doc.page_content
    THEN [i \in 1..Len(d) |->
            IF d[i].page_content = doc.page_content THEN doc ELSE d[i]]
    ELSE Append(d, doc)

\* The inner loop of lines 212-213 over one search's results.
RECURSIVE MergeDocs(_, _)
MergeDocs(d, retrieved_docs) ==
    IF retrieved_docs = << >>
    THEN d
    ELSE MergeDocs(DictSet(d, Head(retrieved_docs)), Tail(retrieved_docs))

\* A slip: the shortcut is never taken.
NeverEmpty(d) == FALSE

\* A slip: the shortcut is always taken.
AlwaysEmpty(d) == TRUE

\* "if not all_source_docs", line 215.
NoEvidence(d) == d = << >>

Delimiter == "\n\n---\n\n"

\* "\n\n---\n\n".join(doc.page_content for doc in ...values()), line 219:
\* the chunk texts with the delimiter between neighbours.
combined_context(d) ==
    [i \in 1..(IF d = << >> THEN 0 ELSE 2 * Len(d) - 1) |->
        IF i % 2 = 1 THEN d[(i + 1) \div 2].page_content ELSE Delimiter]

\* Line 220: the questions numbered from 1 in request order.
formatted_questions(questions) ==
    [i \in 1..Len(questions) |-> << i, questions[i] >>]

\* ------------------------------------------------------- model replies

\* The decimal numeral of a list number below ten.
Numeral(i) ==
    << CASE i = 0 -> "0" [] i = 1 -> "1" [] i = 2 -> "2" [] i = 3 -> "3"
         [] i = 4 -> "4" [] i = 5 -> "5" [] i = 6 -> "6" [] i = 7 -> "7"
         [] i = 8 -> "8" [] i = 9 -> "9" >>

\* One list item as the prompt demands it: "i. text".
Item(i, text) == Numeral(i) \o << ".", " " >> \o text

\* lines joined by newlines.
RECURSIVE JoinLines(_)
JoinLines(lines) ==
    IF lines = << >> THEN << >>
    ELSE IF Len(lines) = 1 THEN lines[1]
    ELSE lines[1] \o << NL >> \o JoinLines(Tail(lines))

\* The reply "1. a1\n2. a2\n...\nN. aN" for the answer texts a1..aN.
NumberedList(texts) == JoinLines([i \in 1..Len(texts) |-> Item(i, texts[i])])

\* Answer texts a reply is built from.
AnswerTexts == { << "A" >>, Sentinel }

\* The lines a reply is built from: numbered items, a line without a
\* number, an empty line.
ReplyLines ==
    { Item(i, t) : i \in 1..MaxLines, t \in AnswerTexts }
        \cup { << "B" >>, << >> }

\* Every reply of at most MaxLines such lines.
ParserReplies ==
    { JoinLines(ls) : ls \in UNION { [1..n -> ReplyLines] : n \in 1..MaxLines } }

\* The replies the generative model gives in the request model: the
\* well-formed lists of up to MaxQuestions items, a list with a preamble
\* and an empty reply.
ModelReplies ==
    { NumberedList(ts) :
        ts \in UNION { [1..n -> AnswerTexts] : n \in 1..MaxQuestions } }
        \cup { JoinLines(<< << "B" >>, Item(1, << "A" >>) >>), << >> }

\* ----------------------------------------------------------- the state

VARIABLES
    layout,             \* how the vector store lays out the rows it writes
    torn,               \* whether a store call has failed after it had
                        \* written a part of its batch
    mongo_collection,   \* per process: the global of line 63, "None" or
                        \* "collection"
    index,              \* the rows of the collection, in insertion order
    pc,                 \* per process: "off" before it is started, "idle"
                        \* between requests, else where run_submission stands
    request,            \* per handler: the QueryRequest
    branch,             \* per handler: the branch taken at line 177
    doc_chunks,         \* per handler: doc_chunks of line 179
    all_source_docs,    \* per handler: the dict of line 208, as a sequence
    qi,                 \* per handler: the question the loop of line 210 is at
    retrieved_docs,     \* per handler: retrieved_docs of line 211
    response_text,      \* per handler: llm_response.content, line 247
    response,           \* per handler: the HTTP response
    first_seen,         \* per handler: the texts retrieved so far, each once, in
                        \* the order the loops of lines 210-212 first met them
    calls               \* per handler: the external calls made so far

vars == << layout, torn, mongo_collection, index, pc, request, branch, doc_chunks,
           all_source_docs, qi, retrieved_docs, response_text, response,
           first_seen, calls >>

\* The question lists of a QueryRequest, one of each length: min_items=1,
\* line 123.  No step of the handler reads the text of a question.
Questions(n) == [i \in 1..n |-> << "q", i >>]

QuestionLists == { Questions(n) : n \in 1..MaxQuestions }

NoRequest == [documents |-> "", questions |-> << >>]

NoError == [kind |-> "none", status_code |-> 0, detail |-> ""]

NoResponse == [status |-> 0, answers |-> << >>, error |-> NoError]

NoCalls == [connect |-> 0, download |-> 0, store |-> 0, search |-> 0, llm |-> 0]

\* raise HTTPException(status_code=..., detail=...)
HTTPError(code, detail) ==
    [kind |-> "HTTPException", status_code |-> code, detail |-> detail]

\* Any other exception of a collaborator.
OtherError(what) == [kind |-> "Exception", status_code |-> 0, detail |-> what]

\* QueryResponse(answers=answers), lines 217, 254, 256.
QueryResponse(answers) == [status |-> 200, answers |-> answers, error |-> NoError]

\* Lines 257-259: whatever is raised inside the try block, an HTTPException
\* included, leaves as a 500 whose detail quotes the exception.
InternalError(e) == [status |-> 500, answers |-> << >>, error |-> e]

\* Process 1 has run the module-level statements: the globals of lines
\* 61-63 and the connection attempt of line 92, which may fail without
\* stopping the process.  The other processes are not started.
Init ==
    /\ layout \in Layouts
    /\ torn = FALSE
    /\ \E handle \in { "None", "collection" } :
          mongo_collection = [p \in Procs |-> IF p = 1 THEN handle ELSE "None"]
    /\ index = << >>
    /\ pc = [p \in Procs |-> IF p = 1 THEN "idle" ELSE "off"]
    /\ request = [p \in Procs |-> NoRequest]
    /\ branch = [p \in Procs |-> "none"]
    /\ doc_chunks = [p \in Procs |-> << >>]
    /\ all_source_docs = [p \in Procs |-> << >>]
    /\ qi = [p \in Procs |-> 0]
    /\ retrieved_docs = [p \in Procs |-> << >>]
    /\ response_text = [p \in Procs |-> << >>]
    /\ response = [p \in Procs |-> NoResponse]
    /\ first_seen = [p \in Procs |-> << >>]
    /\ calls = [p \in Procs |-> NoCalls]

\* The texts of order followed by those of docs that order does not hold
\* yet, each once, in the order of docs: what the loops of lines 210-212
\* meet for the first time.
RECURSIVE FirstSeen(_, _)
FirstSeen(order, docs) ==
    IF docs = << >>
    THEN order
    ELSE FirstSeen(IF \E i \in 1..Len(order) : order[i] = Head(docs).page_content
                   THEN order
                   ELSE Append(order, Head(docs).page_content),
                   Tail(docs))

\* A failure that is swallowed: the handler stays where it is and takes
\* the failed step again.
RetryStep(p, e) == UNCHANGED << pc, response >>

\* The handler ends by raising e: lines 257-259.
Raise(p, e) ==
    /\ pc' = [pc EXCEPT ![p] = "done"]
    /\ response' = [response EXCEPT ![p] = InternalError(e)]

\* A request arrives: line 202.
Start(p, doc_url, questions) ==
    /\ pc[p] = "idle"
    /\ pc' = [pc EXCEPT ![p] = "connect"]
    /\ request' = [request EXCEPT ![p] = [documents |-> doc_url, questions |-> questions]]
    /\ UNCHANGED << layout, torn, mongo_collection, index, branch, doc_chunks, all_source_docs,
                    qi, response_text, response, retrieved_docs, first_seen, calls >>

\* A connection that is never tried again: a request that meets the unset
\* handle fails without an attempt.
EnsureConnectedNoRetry(p) ==
    /\ pc[p] = "connect"
    /\ \/ /\ mongo_collection[p] # "None"
          /\ pc' = [pc EXCEPT ![p] = "check"]
          /\ UNCHANGED response
       \/ /\ mongo_collection[p] = "None"
          /\ Raise(p, HTTPError(500, "MongoDB connection failed"))
    /\ UNCHANGED << layout, torn, mongo_collection, calls, index, request, branch, doc_chunks,
                    all_source_docs, qi, response_text, retrieved_docs, first_seen >>

\* Lines 172-174 with initialize_mongodb, lines 65-89.
EnsureConnected(p) ==
    /\ pc[p] = "connect"
    /\ \/ /\ mongo_collection[p] # "None"
          /\ pc' = [pc EXCEPT ![p] = "check"]
          /\ UNCHANGED << mongo_collection, response, calls >>
       \/ /\ mongo_collection[p] = "None"
          /\ mongo_collection' = [mongo_collection EXCEPT ![p] = "collection"]
          /\ calls' = [calls EXCEPT ![p].connect = @ + 1]
          /\ pc' = [pc EXCEPT ![p] = "check"]
          /\ UNCHANGED response
       \/ /\ mongo_collection[p] = "None"
          /\ calls' = [calls EXCEPT ![p].connect = @ + 1]
          /\ Raise(p, HTTPError(500, "MongoDB connection failed"))
          /\ UNCHANGED mongo_collection
    /\ UNCHANGED << layout, torn, index, request, branch, doc_chunks,
                    all_source_docs, qi, response_text, retrieved_docs, first_seen >>

\* Line 177 and the choice of branch, lines 178 and 190-197; count_documents
\* is a call to the database and may raise.
CheckIndexed(p) ==
    /\ pc[p] = "check"
    /\ \/ /\ DocExists(index, request[p].documents)
          /\ branch' = [branch EXCEPT ![p] = "indexed"]
          /\ pc' = [pc EXCEPT ![p] = "retrieve"]
          /\ qi' = [qi EXCEPT ![p] = 1]
          /\ UNCHANGED response
       \/ /\ ~DocExists(index, request[p].documents)
          /\ branch' = [branch EXCEPT ![p] = "ingest"]
          /\ pc' = [pc EXCEPT ![p] = "download"]
          /\ UNCHANGED << qi, response >>
       \/ /\ Raise(p, OtherError("check"))
          /\ UNCHANGED << branch, qi >>
    /\ UNCHANGED << layout, torn, mongo_collection, index, request, doc_chunks,
                    all_source_docs, response_text, retrieved_docs, first_seen,
                    calls >>

\* An ingestion that records the URL before it has the chunks: a failed
\* download leaves an empty chunk of the URL in the index.
DownloadLeavesMarker(p) ==
    /\ pc[p] = "download"
    /\ calls' = [calls EXCEPT ![p].download = @ + 1]
    /\ \/ /\ SplitDocuments(request[p].documents) # << >>
          /\ doc_chunks' = [doc_chunks EXCEPT ![p] =
                 StampChunks(SplitDocuments(request[p].documents), request[p].documents)]
          /\ pc' = [pc EXCEPT ![p] = "store"]
          /\ UNCHANGED << response, index >>
       \/ /\ \E e \in { HTTPError(400, "Document could not be processed."),
                        HTTPError(400, "Failed to download document"),
                        OtherError("loader") } : Raise(p, e)
          /\ index' = index \o from_documents(layout,
                                  StampChunks(<< "" >>, request[p].documents))
          /\ UNCHANGED doc_chunks
    /\ UNCHANGED << layout, torn, mongo_collection, request, branch, all_source_docs, qi,
                    response_text, retrieved_docs, first_seen >>

\* Lines 179-181: get_document_chunks (lines 135-163) and the check that it
\* yielded chunks.
Download(p) ==
    /\ pc[p] = "download"
    /\ calls' = [calls EXCEPT ![p].download = @ + 1]
    /\ \/ /\ SplitDocuments(request[p].documents) # << >>
          /\ doc_chunks' = [doc_chunks EXCEPT ![p] =
                 StampChunks(SplitDocuments(request[p].documents), request[p].documents)]
          /\ pc' = [pc EXCEPT ![p] = "store"]
          /\ UNCHANGED response
       \/ /\ SplitDocuments(request[p].documents) = << >>
          /\ Raise(p, HTTPError(400, "Document could not be processed."))
          /\ UNCHANGED doc_chunks
       \/ /\ Raise(p, HTTPError(400, "Failed to download document"))
          /\ UNCHANGED doc_chunks
       \/ /\ Raise(p, OtherError("loader"))
          /\ UNCHANGED doc_chunks
    /\ UNCHANGED << layout, torn, mongo_collection, index, request, branch, all_source_docs, qi,
                    response_text, retrieved_docs, first_seen >>

\* A guarded store: the write is made only while the existence check is
\* still false for the URL.
StoreIfAbsent(p, torn_at) ==
    /\ pc[p] = "store"
    /\ ~DocExists(index, request[p].documents)
    /\ calls' = [calls EXCEPT ![p].store = @ + 1]
    /\ \/ /\ index' = index \o from_documents(layout, doc_chunks[p])
          /\ pc' = [pc EXCEPT ![p] = "retrieve"]
          /\ qi' = [qi EXCEPT ![p] = 1]
          /\ UNCHANGED response
       \/ /\ Raise(p, OtherError("store"))
          /\ UNCHANGED << index, qi >>
    /\ UNCHANGED << layout, torn, mongo_collection, request, branch, doc_chunks,
                    all_source_docs, response_text, retrieved_docs, first_seen >>

\* Lines 184-189: from_documents embeds the chunks and writes their rows.
\* The call may raise, and src/main.py neither fixes how many of the rows
\* are written by then nor removes them: none, or the first k of them, for
\* a k of torn_at.
Store(p, torn_at) ==
    /\ pc[p] = "store"
    /\ calls' = [calls EXCEPT ![p].store = @ + 1]
    /\ LET rows == from_documents(layout, doc_chunks[p])
       IN  \/ /\ index' = index \o rows
              /\ pc' = [pc EXCEPT ![p] = "retrieve"]
              /\ qi' = [qi EXCEPT ![p] = 1]
              /\ UNCHANGED << response, torn >>
           \/ \E k \in {0} \cup ((1..(Len(rows) - 1)) \cap torn_at) :
                 /\ Raise(p, OtherError("store"))
                 /\ index' = index \o SubSeq(rows, 1, k)
                 /\ torn' = (torn \/ k > 0)
                 /\ UNCHANGED qi
    /\ UNCHANGED << layout, mongo_collection, request, branch, doc_chunks,
                    all_source_docs, response_text, retrieved_docs, first_seen >>

\* One turn of the loop of lines 210-213 and, after its last turn, the
\* shortcut of lines 215-217.  The search returns one of results.
Retrieve(p, results) ==
    /\ pc[p] = "retrieve"
    /\ calls' = [calls EXCEPT ![p].search = @ + 1]
    /\ \/ \E docs \in results :
            LET merged == MergeDocs(all_source_docs[p], docs)
            IN  /\ retrieved_docs' = [retrieved_docs EXCEPT ![p] = docs]
                /\ all_source_docs' = [all_source_docs EXCEPT ![p] = merged]
                /\ first_seen' = [first_seen EXCEPT ![p] = FirstSeen(@, docs)]
                /\ qi' = [qi EXCEPT ![p] = @ + 1]
                /\ IF qi[p] < Len(request[p].questions)
                   THEN UNCHANGED << pc, response >>
                   ELSE IF NoEvidence(merged)
                   THEN /\ pc' = [pc EXCEPT ![p] = "done"]
                        /\ response' = [response EXCEPT ![p] =
                               QueryResponse(SentinelAnswers(Len(request[p].questions)))]
                   ELSE /\ pc' = [pc EXCEPT ![p] = "llm"]
                        /\ UNCHANGED response
       \/ /\ Raise(p, OtherError("search"))
          /\ UNCHANGED << all_source_docs, qi, retrieved_docs, first_seen >>
    /\ UNCHANGED << layout, torn, mongo_collection, index, request, branch, doc_chunks,
                    response_text >>

\* Lines 219-256: the prompt is built, the model is invoked once with it
\* and its reply, one of replies, is parsed into the answers.
Complete(p, replies) ==
    /\ pc[p] = "llm"
    /\ calls' = [calls EXCEPT ![p].llm = @ + 1]
    /\ \/ \E text \in replies :
            /\ response_text' = [response_text EXCEPT ![p] = text]
            /\ pc' = [pc EXCEPT ![p] = "done"]
            /\ response' = [response EXCEPT ![p] =
                   QueryResponse(ParseResponse(text, Len(request[p].questions)))]
       \/ /\ Raise(p, OtherError("llm"))
          /\ UNCHANGED response_text
    /\ UNCHANGED << layout, torn, mongo_collection, index, request, branch, doc_chunks,
                    all_source_docs, qi, retrieved_docs, first_seen >>

\* The response has been sent and the handler's locals are gone.
Return(p) ==
    /\ pc[p] = "done"
    /\ pc' = [pc EXCEPT ![p] = "idle"]
    /\ request' = [request EXCEPT ![p] = NoRequest]
    /\ branch' = [branch EXCEPT ![p] = "none"]
    /\ doc_chunks' = [doc_chunks EXCEPT ![p] = << >>]
    /\ all_source_docs' = [all_source_docs EXCEPT ![p] = << >>]
    /\ qi' = [qi EXCEPT ![p] = 0]
    /\ retrieved_docs' = [retrieved_docs EXCEPT ![p] = << >>]
    /\ response_text' = [response_text EXCEPT ![p] = << >>]
    /\ response' = [response EXCEPT ![p] = NoResponse]
    /\ first_seen' = [first_seen EXCEPT ![p] = << >>]
    /\ calls' = [calls EXCEPT ![p] = NoCalls]
    /\ UNCHANGED << layout, torn, mongo_collection, index >>

\* No other process is handling a request.
Alone(p) == \A q \in Procs \ {p} : pc[q] \in {"idle", "off"}

\* A new request takes the free slot of lowest number.
FreeSlot(p) == pc[p] = "idle" /\ \A q \in 1..(p - 1) : pc[q] # "idle"

\* The collection has room for what a request for doc_url may store.
HasRoom(doc_url) ==
    \/ DocExists(index, doc_url)
    \/ Len(index) + Len(SplitDocuments(doc_url)) <= MaxStored

Next ==
    \/ \E p \in Procs, u \in URLs, qs \in QuestionLists :
          Alone(p) /\ FreeSlot(p) /\ HasRoom(u) /\ Start(p, u, qs)
    \/ \E p \in Procs : Alone(p) /\ EnsureConnected(p)
    \/ \E p \in Procs : Alone(p) /\ CheckIndexed(p)
    \/ \E p \in Procs : Alone(p) /\ Download(p)
    \/ \E p \in Procs : Alone(p) /\ Store(p, {})
    \/ \E p \in Procs : Alone(p) /\ Retrieve(p, SearchResults(index))
    \/ \E p \in Procs : Alone(p) /\ Complete(p, ModelReplies)
    \/ \E p \in Procs : Alone(p) /\ Return(p)

\* The server as line 263 starts it: one process, whose event loop runs
\* run_submission, a coroutine without an await, to its response before it
\* starts on another request.  A search may return any rows in any order; a
\* store call that fails has written nothing.
Spec == Init /\ [][Next]_vars

\* --------------------------------------- several server processes
\* The same application started more than once (several workers or
\* instances) against the one collection: every process has its own globals
\* and its own event loop, and the steps of their handlers interleave.  A
\* store call that fails may have written any part of its batch.

\* A further process is started: the module-level statements, lines 60-93.
Boot(p) ==
    /\ pc[p] = "off"
    /\ pc' = [pc EXCEPT ![p] = "idle"]
    /\ \E handle \in { "None", "collection" } :
          mongo_collection' = [mongo_collection EXCEPT ![p] = handle]
    /\ UNCHANGED << layout, torn, index, request, branch, doc_chunks,
                    all_source_docs, qi, retrieved_docs, response_text,
                    response, first_seen, calls >>

\* The requests the processes are sent: one question about one document.
ConcURLs == { U1 }

\* What a search returns there: nothing, or the chunk stored first.
TopResults(idx) ==
    { << >> } \cup (IF idx = << >> THEN { } ELSE { << idx[1] >> })

\* What the model replies there.
ConcReplies == { NumberedList(<< << "A" >> >>) }

ConcNext ==
    \/ \E p \in Procs : Boot(p)
    \/ \E p \in Procs, u \in ConcURLs : HasRoom(u) /\ Start(p, u, Questions(1))
    \/ \E p \in Procs : EnsureConnected(p)
    \/ \E p \in Procs : CheckIndexed(p)
    \/ \E p \in Procs : Download(p)
    \/ \E p \in Procs : Store(p, Nat)
    \/ \E p \in Procs : Retrieve(p, TopResults(index))
    \/ \E p \in Procs : Complete(p, ConcReplies)
    \/ \E p \in Procs : Return(p)

ConcSpec == Init /\ [][ConcNext]_vars

\* ------------------------------------------- the parser on its own
\* Handler 1 stands where run_submission is about to build the prompt: an
\* earlier request has stored U1 and every search of this request returned
\* the first stored chunk.  Where the rows are nested the existence check
\* found U1 and the request went straight to its searches; where they are
\* flat the check found nothing, and the request downloaded U1 and stored
\* it a second time before it searched.

ParserInit ==
    \E n \in 1..MaxQuestions, lay \in Layouts :
        LET chunks == StampChunks(SplitDocuments(U1), U1)
            stored == from_documents(lay, chunks)
            found == DocExists(stored, U1)
            busy(p) == p = 1
        IN  /\ layout = lay
            /\ torn = FALSE
            /\ mongo_collection = [p \in Procs |->
                   IF busy(p) THEN "collection" ELSE "None"]
            /\ index = IF found THEN stored ELSE stored \o stored
            /\ pc = [p \in Procs |-> IF busy(p) THEN "llm" ELSE "off"]
            /\ request = [p \in Procs |->
                   IF busy(p)
                   THEN [documents |-> U1, questions |-> Questions(n)]
                   ELSE NoRequest]
            /\ branch = [p \in Procs |->
                   IF ~busy(p) THEN "none"
                   ELSE IF found THEN "indexed" ELSE "ingest"]
            /\ doc_chunks = [p \in Procs |->
                   IF busy(p) /\ ~found THEN chunks ELSE << >>]
            /\ all_source_docs = [p \in Procs |->
                   IF busy(p) THEN << stored[1] >> ELSE << >>]
            /\ qi = [p \in Procs |-> IF busy(p) THEN n + 1 ELSE 0]
            /\ retrieved_docs = [p \in Procs |->
                   IF busy(p) THEN << stored[1] >> ELSE << >>]
            /\ response_text = [p \in Procs |-> << >>]
            /\ response = [p \in Procs |-> NoResponse]
            /\ first_seen = [p \in Procs |->
                   IF busy(p) THEN << stored[1].page_content >> ELSE << >>]
            /\ calls = [p \in Procs |->
                   IF ~busy(p) THEN NoCalls
                   ELSE IF found THEN [NoCalls EXCEPT !.search = n]
                   ELSE [NoCalls EXCEPT !.download = 1, !.store = 1,
                                        !.search = n]]

ParserNext == \E p \in Procs : Alone(p) /\ Complete(p, ParserReplies)

ParserSpec == ParserInit /\ [][ParserNext]_vars

\* ------------------------------------------------------------ properties

\* The keys of the evidence dict, in dict order.
Keys(d) == [i \in 1..Len(d) |-> d[i].page_content]

\* How often x occurs in the sequence seq.
Occurrences(seq, x) == Cardinality({i \in 1..Len(seq) : seq[i] = x})

\* The URL and the file name a row, or a chunk a search returned, carries,
\* wherever the layout puts them.
UrlOf(row) ==
    IF "metadata" \in DOMAIN row THEN row.metadata.source_url ELSE row.source_url

FileOf(row) ==
    IF "metadata" \in DOMAIN row
    THEN row.metadata.source_document
    ELSE row.source_document

\* The stored rows that carry a URL.
StoredFor(doc_url) == SelectSeq(index, LAMBDA c : UrlOf(c) = doc_url)

\* Handler p has answered with a QueryResponse.
Answered(p) == pc[p] = "done" /\ response[p].status = 200

\* Handler p has answered with what it parsed out of the model's reply.
AnsweredFromReply(p) == Answered(p) /\ calls[p].llm = 1

NumQuestions(p) == Len(request[p].questions)

\* The lines of a text: its pieces between newlines.
RECURSIVE LinesFrom(_, _)
LinesFrom(s, start) ==
    LET nls == {i \in start..Len(s) : s[i] = NL}
    IN  IF nls = {}
        THEN << SubSeq(s, start, Len(s)) >>
        ELSE LET m == CHOOSE i \in nls : \A j \in nls : i <= j
             IN  << SubSeq(s, start, m - 1) >> \o LinesFrom(s, m + 1)

\* The texts a reply carries under list number i: what follows "i." on the
\* lines that begin with it, trimmed.
TextsUnder(text, i) ==
    LET lines == LinesFrom(text, 1)
    IN  { Strip(SubSeq(lines[k], 3, Len(lines[k]))) :
            k \in { j \in 1..Len(lines) :
                      /\ Len(lines[j]) >= 2
                      /\ lines[j][1] = Numeral(i)[1]
                      /\ lines[j][2] = "." } }

\* C1: requests for a URL being handled one after the other, a handler goes
\* down the download-and-store path only while the index holds no chunk of
\* its URL, a handler that found its URL indexed has made no download and no
\* store, and so the index never holds more than the one stored copy of a
\* document's chunks.
C1_IdempotentIngestion ==
    /\ \A u \in URLs : Len(StoredFor(u)) <= Len(SplitDocuments(u))
    /\ \A p \in Procs :
        /\ pc[p] \in {"download", "store"} => StoredFor(request[p].documents) = << >>
        /\ branch[p] = "indexed" =>
              /\ StoredFor(request[p].documents) # << >>
              /\ calls[p].download = 0
              /\ calls[p].store = 0
              /\ doc_chunks[p] = << >>
        /\ branch[p] = "ingest" /\ pc[p] \in {"retrieve", "llm"} =>
              /\ calls[p].download = 1
              /\ calls[p].store = 1

\* C2 (as claimed): a reply that is the well-formed list "1. a1\n...\nN. aN"
\* for N questions is parsed into exactly a1..aN.
C2_WellFormedListParsed ==
    \A p \in Procs :
        AnsweredFromReply(p) =>
            \A ts \in [1..NumQuestions(p) -> AnswerTexts] :
                response_text[p] = NumberedList(ts) => response[p].answers = ts

\* C3 (as claimed): when item i of a well-formed list is the sentinel
\* sentence, answer i is the sentinel sentence and nothing else.
C3_SentinelVerbatim ==
    \A p \in Procs :
        AnsweredFromReply(p) =>
            \A ts \in [1..NumQuestions(p) -> AnswerTexts] :
                response_text[p] = NumberedList(ts) =>
                    \A i \in 1..NumQuestions(p) :
                        ts[i] = Sentinel =>
                            /\ i \in DOMAIN response[p].answers
                            /\ response[p].answers[i] = SentinelAnswers(i)[i]

\* C4: whenever the model has replied, the request is answered, and if the
\* number of trimmed non-empty fragments differs from the number of
\* questions the answer list is the raw reply alone, unchanged.
C4_FallbackIsRawReply ==
    \A p \in Procs :
        pc[p] = "done" /\ calls[p].llm = 1 /\ response[p].error # OtherError("llm") =>
            /\ response[p].status = 200
            /\ Len(Fragments(response_text[p])) # NumQuestions(p) =>
                  /\ Len(response[p].answers) = 1
                  /\ response[p].answers[1] = response_text[p]

\* C4 witness: a reply with surrounding whitespace and the wrong number of
\* fragments has been answered.
C4_Witness ==
    \E p \in Procs :
        /\ AnsweredFromReply(p)
        /\ Len(Fragments(response_text[p])) # NumQuestions(p)
        /\ Len(Fragments(response_text[p])) >= 2
        /\ Strip(response_text[p]) # response_text[p]

\* C5 (as claimed): on the success path no answer is shifted against the
\* list numbers: an answer that the reply carries under some list number j
\* stands at position j, or the reply carries it under its own position too.
C5_SuccessPathAligned ==
    \A p \in Procs :
        AnsweredFromReply(p) /\ Len(Fragments(response_text[p])) = NumQuestions(p) =>
            \A i \in 1..NumQuestions(p) : \A j \in 1..MaxLines :
                response[p].answers[i] \in TextsUnder(response_text[p], j) =>
                    response[p].answers[i] \in TextsUnder(response_text[p], i)

\* C6: every text retrieved so far occurs exactly once among the keys of the
\* evidence set and exactly once in the combined context, and nothing else
\* occurs in either.
C6_EvidenceDeduplicated ==
    \A p \in Procs :
        LET keys == Keys(all_source_docs[p])
            context == combined_context(all_source_docs[p])
            texts == {first_seen[p][i] : i \in 1..Len(first_seen[p])}
        IN  /\ \A t \in texts :
                 Occurrences(keys, t) = 1 /\ Occurrences(context, t) = 1
            /\ \A i \in 1..Len(keys) : keys[i] \in texts
            /\ \A i \in 1..Len(context) : context[i] \in texts \cup {Delimiter}

\* C6 witness: the second question's search has returned one text twice
\* (c2 is stored for both documents) and, ranked below another text, a text
\* that stands before it in the evidence, so that the first question had
\* retrieved it already.
C6_Witness ==
    \E p \in Procs :
        /\ calls[p].search = 2
        /\ pc[p] = "llm"
        /\ \E a, b \in 1..Len(retrieved_docs[p]) :
              /\ a # b
              /\ retrieved_docs[p][a].page_content = retrieved_docs[p][b].page_content
        /\ \E a, b \in 1..Len(retrieved_docs[p]) :
              /\ a < b
              /\ \E i, j \in 1..Len(all_source_docs[p]) :
                    /\ j < i
                    /\ all_source_docs[p][i].page_content = retrieved_docs[p][a].page_content
                    /\ all_source_docs[p][j].page_content = retrieved_docs[p][b].page_content

\* C7: the keys of the evidence set stand in the order in which the texts
\* were first retrieved, and a search never moves or removes a key that is
\* already there: the old keys stay a prefix of the new ones.
C7_FirstSeenOrder ==
    /\ [](\A p \in Procs : Keys(all_source_docs[p]) = first_seen[p])
    /\ [][\A p \in Procs :
            pc[p] = "retrieve" /\ pc'[p] # "idle" =>
                /\ Len(all_source_docs'[p]) >= Len(all_source_docs[p])
                /\ SubSeq(Keys(all_source_docs'[p]), 1, Len(all_source_docs[p]))
                       = Keys(all_source_docs[p])
                /\ SubSeq(combined_context(all_source_docs'[p]), 1,
                          Len(combined_context(all_source_docs[p])))
                       = combined_context(all_source_docs[p])]_vars

\* C7 witness: the second question's search has ranked c3, c2, c1, and the
\* evidence still reads c1, c2, c3: c1 and c2 kept the places the first
\* question gave them and c3 came last.
C7_Witness ==
    \E p \in Procs :
        /\ calls[p].search = 2
        /\ Keys(retrieved_docs[p]) = << "c3", "c2", "c1" >>
        /\ Keys(all_source_docs[p]) = << "c1", "c2", "c3" >>

\* C8: a request whose searches have all returned nothing is answered with
\* the sentinel sentence once per question, and the model is not invoked for
\* it: no handler without evidence ever stands at the model call.
C8_EmptyEvidenceShortcut ==
    \A p \in Procs :
        /\ first_seen[p] = << >> => pc[p] # "llm" /\ calls[p].llm = 0
        /\ (/\ pc[p] = "done"
            /\ first_seen[p] = << >>
            /\ calls[p].search = NumQuestions(p)
            /\ response[p].error = NoError) =>
               /\ response[p].status = 200
               /\ Len(response[p].answers) = NumQuestions(p)
               /\ \A i \in 1..NumQuestions(p) : response[p].answers[i] = Sentinel
               /\ response_text[p] = << >>

\* C8 witness: a request with two questions was answered by the shortcut
\* although the index holds chunks.
C8_Witness ==
    \E p \in Procs :
        /\ Answered(p)
        /\ NumQuestions(p) = 2
        /\ calls[p].search = 2
        /\ first_seen[p] = << >>
        /\ index # << >>
        /\ response[p].answers = << Sentinel, Sentinel >>

\* C9: a request invokes the model at most once; it invokes it exactly once
\* when all its searches succeeded and left evidence; and the invocation
\* comes after the last search and before any response.
C9_SingleModelCall ==
    \A p \in Procs :
        /\ calls[p].llm <= 1
        /\ calls[p].llm = 1 => pc[p] = "done" /\ calls[p].search = NumQuestions(p)
        /\ pc[p] = "llm" =>
              /\ calls[p].search = NumQuestions(p)
              /\ calls[p].llm = 0
              /\ response[p] = NoResponse
        /\ (/\ pc[p] = "done"
            /\ calls[p].search = NumQuestions(p)
            /\ response[p].error # OtherError("search")
            /\ first_seen[p] # << >>) => calls[p].llm = 1

\* C9 witness: a request with two questions that retrieved evidence has
\* been answered after one model call.
C9_Witness ==
    \E p \in Procs :
        /\ Answered(p)
        /\ NumQuestions(p) = 2
        /\ calls[p].search = 2
        /\ calls[p].llm = 1
        /\ Len(response[p].answers) = 2

\* C10: a QueryResponse carries as many answers as the request has
\* questions, or it is the fallback: the raw reply of the model alone.
C10_AllOrFallback ==
    \A p \in Procs :
        Answered(p) =>
            \/ Len(response[p].answers) = NumQuestions(p)
            \/ /\ calls[p].llm = 1
               /\ response[p].answers = << response_text[p] >>

\* C10 witness: a request with one question got the fallback for a reply
\* that lists two answers.
C10_Witness ==
    \E p \in Procs :
        /\ Answered(p)
        /\ NumQuestions(p) = 1
        /\ Len(Fragments(response_text[p])) = 2
        /\ response[p].answers = << response_text[p] >>

\* Process p stands between its existence check, which found nothing, and
\* the end of its store.
Ingesting(p, doc_url) ==
    pc[p] \in {"download", "store"} /\ request[p].documents = doc_url

\* C11: nothing serializes the existence check with the store.  A process
\* that stands before its store holds the stamped chunks of its document and
\* can append their rows whatever the index holds by then and whatever the
\* other processes do; a process whose check finds no row of its URL is sent
\* to ingest.  So two processes that both checked before either stored both
\* store, and the index then holds the document twice.
C11_UnguardedIngestion ==
    \A p \in Procs :
        /\ pc[p] = "store" =>
              /\ doc_chunks[p] = StampChunks(SplitDocuments(request[p].documents),
                                             request[p].documents)
              /\ ENABLED (/\ Store(p, {})
                          /\ index' = index \o from_documents(layout, doc_chunks[p]))
        /\ pc[p] = "check" /\ StoredFor(request[p].documents) = << >> =>
              ENABLED (CheckIndexed(p) /\ pc'[p] = "download")

\* C11 witness: two processes found U1 absent, both stored it, and the index
\* holds its chunks twice.
C11_Witness ==
    \E p, q \in Procs :
        /\ p # q
        /\ request[p].documents = U1 /\ request[q].documents = U1
        /\ branch[p] = "ingest" /\ branch[q] = "ingest"
        /\ calls[p].store = 1 /\ calls[q].store = 1
        /\ pc[p] = "retrieve" /\ pc[q] = "retrieve"
        /\ layout = "nested"
        /\ LET rows == from_documents(layout, StampChunks(SplitDocuments(U1), U1))
           IN  index = rows \o rows

\* A URL is settled: it is stored and no process is ingesting it.
Settled(doc_url) ==
    StoredFor(doc_url) # << >> /\ \A p \in Procs : ~Ingesting(p, doc_url)

\* C12: whatever the interleaving, a stored URL stays stored; a process
\* starts to ingest a URL only from an existence check made while no row of
\* it was stored, and a process that leaves its check while rows of its URL
\* are stored does not go to ingest and does not write; so once a URL is
\* stored and the ingestions in flight have ended, it stays settled and its
\* stored rows never change.
C12_Convergence ==
    [][ /\ \A u \in URLs : StoredFor(u) # << >> => StoredFor(u)' # << >>
        /\ \A p \in Procs :
              /\ pc[p] # "download" /\ pc'[p] = "download" =>
                    pc[p] = "check" /\ StoredFor(request[p].documents) = << >>
              /\ (/\ pc[p] = "check"
                  /\ pc'[p] # "check"
                  /\ StoredFor(request[p].documents) # << >>) =>
                    /\ pc'[p] \in {"retrieve", "done"}
                    /\ pc'[p] = "retrieve" => branch'[p] = "indexed"
                    /\ index' = index
              /\ branch[p] = "indexed" /\ branch'[p] = "indexed" =>
                    calls'[p].download = 0 /\ calls'[p].store = 0
        /\ \A u \in URLs :
              Settled(u) => Settled(u)' /\ StoredFor(u)' = StoredFor(u) ]_vars

\* The error of a request that could not connect: line 174.
ConnectionFailed == HTTPError(500, "MongoDB connection failed")

\* C13: a process whose connection failed at startup still takes requests;
\* a request that meets the unset handle makes exactly one connection
\* attempt before the existence check; if it succeeds the request goes on
\* with the handle set, and a set handle stays set and causes no further
\* attempt; if it fails the request ends with the connection error having
\* called nothing else, the handle stays unset, and a request that meets the
\* unset handle can always make its attempt.
C13_LazyReconnect ==
    /\ [](\A p \in Procs :
            /\ calls[p].connect <= 1
            /\ pc[p] = "idle" /\ mongo_collection[p] = "None" =>
                  ENABLED Start(p, U1, Questions(1))
            /\ pc[p] = "connect" /\ mongo_collection[p] = "None" =>
                  ENABLED (/\ EnsureConnected(p)
                           /\ calls'[p].connect = 1
                           /\ mongo_collection'[p] = "collection"
                           /\ pc'[p] = "check")
            /\ pc[p] \in {"check", "download", "store", "retrieve", "llm"} =>
                  mongo_collection[p] = "collection"
            /\ response[p].error = ConnectionFailed =>
                  /\ pc[p] = "done"
                  /\ response[p].status = 500
                  /\ mongo_collection[p] = "None"
                  /\ calls[p] = [NoCalls EXCEPT !.connect = 1])
    /\ [][\A p \in Procs :
            /\ mongo_collection[p] = "collection" =>
                  /\ mongo_collection'[p] = "collection"
                  /\ calls'[p].connect <= calls[p].connect
            /\ mongo_collection'[p] # mongo_collection[p] =>
                  pc[p] \in {"connect", "off"}
            /\ (/\ pc[p] = "connect"
                /\ pc'[p] # "connect"
                /\ mongo_collection[p] = "None") =>
                  /\ calls'[p].connect = 1
                  /\ \/ /\ pc'[p] = "check"
                        /\ mongo_collection'[p] = "collection"
                     \/ /\ pc'[p] = "done"
                        /\ mongo_collection'[p] = "None"
                        /\ response'[p].error = ConnectionFailed ]_vars

\* C13 witness: a request that met the unset handle, connected at its one
\* attempt and was answered.
C13_Witness ==
    \E p \in Procs :
        /\ Answered(p)
        /\ calls[p].connect = 1
        /\ mongo_collection[p] = "collection"

\* The stage of the handler an error comes from.
FailedAt(e) ==
    IF e = ConnectionFailed THEN "connect"
    ELSE IF e \in { HTTPError(400, "Document could not be processed."),
                    HTTPError(400, "Failed to download document"),
                    OtherError("loader") } THEN "download"
    ELSE e.detail

Stages == << "connect", "check", "download", "store", "search", "llm" >>

\* The place of a stage in the handler.
StageNo(at) == CHOOSE i \in 1..Len(Stages) : Stages[i] = at

\* C14: a handler calls the download with its chunking, the store and the
\* model at most once each and the search at most once per question; a
\* failure ends the request at once with a failure response that has a
\* message and no answers, no later step having been called; and a handler
\* that has its response calls nothing more.
C14_NoRetryWithinRequest ==
    /\ [](\A p \in Procs :
            /\ calls[p].download <= 1
            /\ calls[p].store <= 1
            /\ calls[p].llm <= 1
            /\ calls[p].search <= NumQuestions(p)
            /\ response[p].error # NoError =>
                  /\ pc[p] = "done"
                  /\ response[p].status = 500
                  /\ response[p].answers = << >>
                  /\ response[p].error.detail # ""
                  /\ LET at == FailedAt(response[p].error)
                     IN  /\ \E i \in 1..Len(Stages) : Stages[i] = at
                         /\ \A step \in DOMAIN NoCalls :
                               /\ StageNo(step) > StageNo(at) => calls[p][step] = 0
                               /\ step = at /\ step # "search" => calls[p][step] = 1
                               /\ step = at => calls[p][step] >= 1)
    /\ [][\A p \in Procs :
            /\ pc[p] = "done" => calls'[p] = calls[p] \/ pc'[p] = "idle"
            /\ response'[p].error # NoError /\ response[p].error = NoError =>
                  \/ /\ FailedAt(response'[p].error) = "check"
                     /\ calls'[p] = calls[p]
                  \/ calls'[p] = [calls[p] EXCEPT ![FailedAt(response'[p].error)] = @ + 1] ]_vars

\* C14 witness: a request with two questions whose model call failed after
\* one download, one store and one search per question.
C14_Witness ==
    \E p \in Procs :
        /\ response[p].error = OtherError("llm")
        /\ NumQuestions(p) = 2
        /\ calls[p] = [NoCalls EXCEPT !.download = 1, !.store = 1, !.search = 2, !.llm = 1]

\* C15: a request whose ingestion raised one of the HTTP 400 exceptions
\* (the download failed, or the document yielded no chunks) is answered
\* with status 400.
C15_BadRequestReachesCaller ==
    \A p \in Procs :
        response[p].error \in { HTTPError(400, "Failed to download document"),
                                HTTPError(400, "Document could not be processed.") } =>
            response[p].status = 400

\* C16: an ingestion that fails at the download, in the loader or for want
\* of chunks makes no store call and leaves the index as it was, so that
\* afterwards the existence check for the URL is still false, and a request
\* whose check for the URL is false is sent down the ingestion path, never
\* to the already-indexed branch.
C16_FailedIngestionLeavesNoTrace ==
    /\ [](\A p \in Procs :
            /\ (/\ response[p].error # NoError
                /\ FailedAt(response[p].error) = "download") =>
                  /\ branch[p] = "ingest"
                  /\ calls[p].store = 0
                  /\ ~DocExists(index, request[p].documents)
            /\ pc[p] = "check" /\ ~DocExists(index, request[p].documents) =>
                  /\ ~ENABLED (CheckIndexed(p) /\ pc'[p] = "retrieve")
                  /\ ENABLED (CheckIndexed(p) /\ pc'[p] = "download"))
    /\ [][\A p \in Procs :
            pc[p] = "download" /\ pc'[p] = "done" => index' = index ]_vars

\* C16 witness: the ingestion of U1 has failed at the download while the
\* index holds the rows of another document and none of U1.
C16_Witness ==
    \E p \in Procs :
        /\ pc[p] = "done"
        /\ request[p].documents = U1
        /\ response[p].error = HTTPError(400, "Failed to download document")
        /\ calls[p].download = 1
        /\ index = from_documents(layout, StampChunks(SplitDocuments(U2), U2))

\* C17: every step leaves the stored rows in place, unchanged and in their
\* order, and adds to them only when a handler on the ingestion path stores
\* rows of its document behind them while no row of its URL is stored; the
\* already-indexed branch, the searches, the model call and the parsing do
\* not change the index.
C17_AppendOnlyIndex ==
    [][ /\ Len(index') >= Len(index)
        /\ SubSeq(index', 1, Len(index)) = index
        /\ index' # index =>
              \E p \in Procs :
                  /\ pc[p] = "store"
                  /\ branch[p] = "ingest"
                  /\ StoredFor(request[p].documents) = << >>
                  /\ calls'[p].store = calls[p].store + 1
                  /\ LET rows == from_documents(layout, doc_chunks[p])
                     IN  \E k \in 1..Len(rows) : index' = index \o SubSeq(rows, 1, k)
        /\ (\E p \in Procs : branch[p] = "indexed" \/ pc[p] \in {"retrieve", "llm", "done"}) =>
              index' = index ]_vars

\* C18: the chunks a search returns to a handler, and so the chunks of its
\* evidence set and prompt context, all carry the URL of its own request.
C18_NoCrossDocumentEvidence ==
    \A p \in Procs :
        /\ \A i \in 1..Len(retrieved_docs[p]) :
              UrlOf(retrieved_docs[p][i]) = request[p].documents
        /\ \A i \in 1..Len(all_source_docs[p]) :
              UrlOf(all_source_docs[p][i]) = request[p].documents

\* C19: as long as no store call has left a part of its batch behind, every
\* stored row carries one of the requested URLs verbatim, and for every URL
\* the stored rows that carry it are, in their order, a whole number of
\* copies of the sequence of the document's chunks (none, if the document
\* yields no chunks); so when the existence check is true for a URL every
\* chunk of its document is stored under that URL.
C19_WholeCopies ==
    ~torn =>
        /\ \A i \in 1..Len(index) : UrlOf(index[i]) \in URLs
        /\ \A u \in URLs :
              LET s == StoredFor(u)
                  texts == SplitDocuments(u)
                  n == Len(texts)
              IN  /\ s # << >> =>
                        /\ n > 0
                        /\ Len(s) % n = 0
                        /\ \A i \in 1..Len(s) :
                              /\ s[i].page_content = texts[((i - 1) % n) + 1]
                              /\ FileOf(s[i]) = SourceFilename(u)
                  /\ DocExists(index, u) =>
                        /\ s # << >>
                        /\ \A j \in 1..n :
                              \E i \in 1..Len(index) :
                                  /\ index[i].page_content = texts[j]
                                  /\ UrlOf(index[i]) = u

\* C19 witness: two processes have each stored the chunks of U1 in whole,
\* the existence check is true for it, the index holds the two copies, and
\* both their requests have been answered.
C19_Witness ==
    /\ ~torn
    /\ DocExists(index, U1)
    /\ Len(StoredFor(U1)) = 2 * Len(SplitDocuments(U1))
    /\ \E p, q \in Procs :
          /\ p # q
          /\ Answered(p) /\ calls[p].store = 1
          /\ Answered(q) /\ calls[q].store = 1

====
